---------------------------- MODULE Spec2Model ----------------------------
(***************************************************************************)
(* A model of the Mini-Games repository.                                   *)
(*                                                                         *)
(* The repository holds three programs, each a window of its own; the      *)
(* module has one specification for each: Spec for Connect Four, SpecCalc  *)
(* for the calculator and SpecTTT for Tic-Tac-Toe.  In the specification   *)
(* of one program the variables of the other two keep the values their     *)
(* constructors give them.                                                 *)
(*                                                                         *)
(* Connect Four (connect-four.py): the game state of the ConnectFour       *)
(* window (board, current_player, game_over, win_coords) and its handlers  *)
(* _on_click, _on_key and reset_game, with the helpers _check_winner and   *)
(* _is_board_full.  The board has the program's size, 6 rows by 7 columns. *)
(* The hover column and the drawing of the board (_on_motion, _draw_board) *)
(* read the game state and write none of it; they are left out.            *)
(*                                                                         *)
(* The user is modelled as follows: any click (any column, in or out of    *)
(* the board), any key and any reset may arrive at any time, except that a *)
(* click that would drop a disc is only explored during the first MaxDrops *)
(* drops of a game, along the recorded game MainLine, along the recorded   *)
(* Openings, and once at most MaxEndgame cells are empty.  Every behaviour *)
(* of the model is a behaviour of the program.                             *)
(*                                                                         *)
(* Calculator (calculator.py): the display text, operation, stored_value  *)
(* and reset_screen, and the handler _on_button_click with its helper      *)
(* _calculate.  The display is a sequence of characters; float() and str() *)
(* are modelled on it.  The user presses any of the sixteen buttons during *)
(* the first MaxPresses presses and then follows the recorded Chains; a    *)
(* division whose quotient is not an integer is not explored, so that      *)
(* every float of the model has an integer value.                          *)
(*                                                                         *)
(* Tic-Tac-Toe (tic-tac-toe.py): board, current_player and game_over, and  *)
(* the handlers _on_click, _on_key and reset_game with the helpers         *)
(* _check_winner and _is_board_full; its names carry the prefix ttt_ where *)
(* Connect Four has the same name.  All clicks and keys are explored.      *)
(***************************************************************************)
EXTENDS Integers, Sequences, FiniteSets, TLC

\* ------------------------------------------------------------------------
\* Connect Four: constants of the class
\* ------------------------------------------------------------------------
ROWS == 6
COLS == 7
RED == "red"
YELLOW == "gold"

\* Python's None in a board cell and as "no winner".
None == "None"
\* Python's None for the local target_row (line 230).
NoRow == -1

\* ------------------------------------------------------------------------
\* Bounds of the exploration
\* ------------------------------------------------------------------------
\* Drops explored freely from the empty board.
MaxDrops == 4
\* Empty cells left on the board from which play is explored freely again.
MaxEndgame == 12
\* The same, where the game is played to the end.
MaxEndgamePlay == 8
\* Presses of calculator buttons explored freely from the start.
MaxPresses == 3

\* A complete game (the columns clicked, in order) that fills the board with
\* no four in a row.
MainLine ==
  << 1, 1, 1, 1, 0, 0, 6, 4, 5, 1, 6, 1, 6, 6, 5, 2, 6, 6, 5, 5, 0,
     2, 0, 3, 5, 4, 5, 4, 4, 0, 3, 0, 3, 2, 2, 4, 3, 3, 2, 4, 2, 3 >>

\* Recorded openings (the columns clicked, in order).  One player stacks four
\* discs in column 3 while the other plays beside it; one player builds the
\* diagonal (5,0), (4,1), (3,2), (2,3), or its mirror image (5,6), (4,5),
\* (3,4), (2,3), on top of the discs that carry it.
Openings ==
  { << 3, a, 3, b, 3, c, 3 >> : a, b, c \in { 0, 2, 4 } }
    \cup { << a, 3, b, 3, c, 3, 1, 3 >> : a, b, c \in { 0, 1 } }
    \cup { << 0, 1, 1, 2, 3, 2, 2, 3, 6, 3, 3 >>,
           << 6, 5, 5, 4, 3, 4, 4, 3, 0, 3, 3 >>,
           << 6, 0, 1, 1, 2, 3, 2, 2, 3, 6, 3, 3 >>,
           << 0, 1, 1, 2, 3, 2, 2, 3, 4, 3, 3 >> }

\* The columns a click event can name: event.x // CELL, which lies outside
\* 0..COLS-1 for a click beside the board.
ClickCols == -1 .. COLS

\* The characters a key event can carry: the two that reset and another one.
KeyChars == { "r", "R", "x" }

RowIdx == 0 .. ROWS - 1
ColIdx == 0 .. COLS - 1

VARIABLES
  board,           \* self.board[row][col]: None, "red" or "gold"
  current_player,  \* self.current_player
  game_over,       \* self.game_over
  win_coords,      \* self.win_coords: sequence of <<row, col>>
  ev               \* the last event handled: its op; for a click the
                   \* column clicked (col) and the local target_row (row);
                   \* for a key its character (char); for a key and for
                   \* the reset button the status of the game it met
                   \* (before)

\* The variables of Connect Four.
cfVars == << board, current_player, game_over, win_coords, ev >>

VARIABLES
  current_input,   \* calculator: the text of the display, a sequence of
                   \* characters
  operation,       \* calculator: self.operation, None or an operator
  stored_value,    \* calculator: self.stored_value
  reset_screen,    \* calculator: self.reset_screen
  pressed,         \* calculator: the buttons pressed so far, in order
  raised           \* calculator: the exception the last press raised, or
                   \* None

calcVars ==
  << current_input, operation, stored_value, reset_screen, pressed, raised >>

VARIABLES
  ttt_board,           \* Tic-Tac-Toe: self.board[row][col]: None, "X" or "O"
  ttt_current_player,  \* Tic-Tac-Toe: self.current_player
  ttt_game_over,       \* Tic-Tac-Toe: self.game_over
  ttt_ev               \* Tic-Tac-Toe: the last event handled: its op; for
                       \* a click its cell (row, col), the winner returned
                       \* by _check_winner (None when it was not called)
                       \* and the notice shown

tttVars == << ttt_board, ttt_current_player, ttt_game_over, ttt_ev >>

vars == << cfVars, calcVars, tttVars >>

\* The game state as one value.
game == [ board |-> board, current_player |-> current_player,
          game_over |-> game_over, win_coords |-> win_coords ]

EmptyBoard == [ r \in RowIdx |-> [ c \in ColIdx |-> None ] ]

\* The game state set by __init__ and by reset_game.
NewGame == [ board |-> EmptyBoard, current_player |-> RED,
             game_over |-> FALSE, win_coords |-> << >> ]

\* ------------------------------------------------------------------------
\* Game logic
\* ------------------------------------------------------------------------
\* Mutant: the diagonals are listed before the horizontal and the vertical.
DirectionsDiagonalsFirst == << <<1, 1>>, <<1, -1>>, <<0, 1>>, <<1, 0>> >>

\* Mutant: the diagonal down-left is not examined.
DirectionsNoDownLeft == << <<0, 1>>, <<1, 0>>, <<1, 1>> >>

\* Lines 268-273: the list directions of _check_winner.
directions == << <<0, 1>>, <<1, 0>>, <<1, 1>>, <<1, -1>> >>

InBoard(r, c) == 0 <= r /\ r < ROWS /\ 0 <= c /\ c < COLS

\* One while loop of _check_winner: the cells collected from (r, c) on in
\* steps of (dr, dc) while they are on the board and hold color.
RECURSIVE Walk(_, _, _, _, _, _)
Walk(b, color, r, c, dr, dc) ==
  IF InBoard(r, c) /\ b[r][c] = color
    THEN << <<r, c>> >> \o Walk(b, color, r + dr, c + dc, dr, dc)
    ELSE << >>

\* Mutant: the walk in the negative direction is missing.
LineCoordsPositiveOnly(b, color, row, col, d) ==
  << <<row, col>> >> \o Walk(b, color, row + d[1], col + d[2], d[1], d[2])

\* Mutant: the placed cell is appended after the two walks.
LineCoordsOriginLast(b, color, row, col, d) ==
  Walk(b, color, row + d[1], col + d[2], d[1], d[2])
    \o Walk(b, color, row - d[1], col - d[2], -d[1], -d[2])
    \o << <<row, col>> >>

\* Lines 276-290: the coords list built by one iteration of the for loop
\* over directions: the placed cell, then the cells of the walk in the
\* positive direction, then those of the walk in the negative direction.
LineCoords(b, color, row, col, d) ==
  << <<row, col>> >>
    \o Walk(b, color, row + d[1], col + d[2], d[1], d[2])
    \o Walk(b, color, row - d[1], col - d[2], -d[1], -d[2])

\* Mutant: three in a row are taken for a winning line.
EnoughFrom3(coords) == Len(coords) >= 3

\* Mutant: a line needs more than four cells.
EnoughMoreThan4(coords) == Len(coords) > 4

\* Line 292: the test that ends the for loop with a winner.
Enough(coords) == Len(coords) >= 4

\* The for loop over directions, from direction number i on.
RECURSIVE CheckFrom(_, _, _, _, _)
CheckFrom(b, color, row, col, i) ==
  IF i > Len(directions)
    THEN [ winner |-> None, coords |-> << >> ]
    ELSE LET coords == LineCoords(b, color, row, col, directions[i])
         IN  IF Enough(coords)
               THEN [ winner |-> color, coords |-> coords ]
               ELSE CheckFrom(b, color, row, col, i + 1)

\* Mutant: coords is set up once, before the for loop, and keeps the cells of
\* the directions already walked.
CheckWinnerSharedCoords(b, color, row, col) ==
  LET walks(i) ==
        Walk(b, color, row + directions[i][1], col + directions[i][2],
             directions[i][1], directions[i][2])
          \o Walk(b, color, row - directions[i][1], col - directions[i][2],
                  -directions[i][1], -directions[i][2])
      c1 == << <<row, col>> >> \o walks(1)
      c2 == c1 \o walks(2)
      c3 == c2 \o walks(3)
      c4 == c3 \o walks(4)
  IN  IF Len(c1) >= 4 THEN [ winner |-> color, coords |-> c1 ]
      ELSE IF Len(c2) >= 4 THEN [ winner |-> color, coords |-> c2 ]
      ELSE IF Len(c3) >= 4 THEN [ winner |-> color, coords |-> c3 ]
      ELSE IF Len(c4) >= 4 THEN [ winner |-> color, coords |-> c4 ]
      ELSE [ winner |-> None, coords |-> << >> ]

\* _check_winner(row, col), with color = self.current_player.
_check_winner(b, color, row, col) == CheckFrom(b, color, row, col, 1)

\* Mutant: the board is never found full.
BoardNeverFull(b) == FALSE

\* _is_board_full(): only the top row is inspected.
_is_board_full(b) == \A c \in ColIdx : b[0][c] # None

\* The scan for target_row: the first empty row from the bottom up.
RECURSIVE ScanUp(_, _, _)
ScanUp(b, col, row) ==
  IF row < 0 THEN NoRow
  ELSE IF b[row][col] = None THEN row
  ELSE ScanUp(b, col, row - 1)

\* Mutant: the column is entered at the bottom row whatever it holds.
TargetRowBottom(b, col) == IF b[0][col] = None THEN ROWS - 1 ELSE NoRow

\* Mutant: the scan does not stop at the first empty row it meets.
TargetRowTop(b, col) ==
  IF \A r \in RowIdx : b[r][col] # None THEN NoRow
  ELSE CHOOSE r \in RowIdx :
         b[r][col] = None /\ \A q \in RowIdx : b[q][col] = None => r <= q

\* Lines 230-234: the local target_row after the scan.
target_row(b, col) == ScanUp(b, col, ROWS - 1)

Other(p) == IF p = RED THEN YELLOW ELSE RED

\* Mutant: the game_over test is missing.
IgnoresNever(g) == FALSE

\* Line 221: the click is ignored once the game is over.
Ignores(g) == g.game_over

\* Line 242: the disc of player p is placed at (tr, col).
PlaceDisc(b, tr, col, p) == [ b EXCEPT ![tr][col] = p ]

\* Mutant: a click on a full column passes the turn.
ColumnFullSkipsTurn(g) == [ g EXCEPT !.current_player = Other(@) ]

\* Lines 237-239: the column is full; a notice is shown and nothing changes.
ColumnFull(g) == g

\* Mutant: the player is switched before the result of the drop is examined.
AfterDropAlwaysSwitch(g, b, res) ==
  IF res.winner # None
    THEN [ g EXCEPT !.board = b, !.game_over = TRUE, !.win_coords = res.coords,
                    !.current_player = Other(g.current_player) ]
  ELSE IF _is_board_full(b)
    THEN [ g EXCEPT !.board = b, !.game_over = TRUE,
                    !.current_player = Other(g.current_player) ]
  ELSE [ g EXCEPT !.board = b, !.current_player = Other(g.current_player) ]

\* Mutant: the full board is tested before the winner.
AfterDropDrawFirst(g, b, res) ==
  IF _is_board_full(b)
    THEN [ g EXCEPT !.board = b, !.game_over = TRUE ]
  ELSE IF res.winner # None
    THEN [ g EXCEPT !.board = b, !.game_over = TRUE, !.win_coords = res.coords ]
  ELSE [ g EXCEPT !.board = b, !.current_player = Other(g.current_player) ]

\* Lines 243-259: the result of the drop that produced board b, where res is
\* what _check_winner returned for it.
AfterDrop(g, b, res) ==
  IF res.winner # None
    THEN [ g EXCEPT !.board = b, !.game_over = TRUE, !.win_coords = res.coords ]
  ELSE IF _is_board_full(b)
    THEN [ g EXCEPT !.board = b, !.game_over = TRUE ]
  ELSE [ g EXCEPT !.board = b, !.current_player = Other(g.current_player) ]

\* _on_click as a function of the game state g and the clicked column: the
\* game state it leaves and the value of its local target_row at return.
Click(g, col) ==
  IF Ignores(g) THEN [ game |-> g, target_row |-> NoRow ]
  ELSE IF ~(0 <= col /\ col < COLS) THEN [ game |-> g, target_row |-> NoRow ]
  ELSE LET tr == target_row(g.board, col) IN
    IF tr = NoRow THEN [ game |-> ColumnFull(g), target_row |-> NoRow ]
    ELSE LET b   == PlaceDisc(g.board, tr, col, g.current_player)
             res == _check_winner(b, g.current_player, tr, col)
         IN  [ game |-> AfterDrop(g, b, res), target_row |-> tr ]

\* ------------------------------------------------------------------------
\* The user
\* ------------------------------------------------------------------------
\* The number of discs in column col of board b, and on the whole board.
Height(b, col) == Cardinality({ r \in RowIdx : b[r][col] # None })

Pieces(b) ==
  Height(b, 0) + Height(b, 1) + Height(b, 2) + Height(b, 3)
    + Height(b, 4) + Height(b, 5) + Height(b, 6)

\* The game state after the first n clicks of line, from game state g.
RECURSIVE Replay(_, _, _)
Replay(g, line, n) ==
  IF n = 0 THEN g
  ELSE CHOOSE next \in { Click(prev, line[n]).game :
                           prev \in { Replay(g, line, n - 1) } } : TRUE

\* The board of MainLine after n clicks.
LineBoard(n) == Replay(NewGame, MainLine, n).board

\* The moves of Openings: the board before the click and the column clicked.
OpeningMoves ==
  UNION { { << Replay(NewGame, line, n).board, line[n + 1] >> :
              n \in 0 .. Len(line) - 1 } : line \in Openings }

\* A click on col is explored when it drops no disc, or when the board holds
\* n discs and the drop is one of those the model follows.
Explored(col, n) ==
  (~game_over /\ col \in ColIdx /\ Height(board, col) < ROWS) =>
      \/ n < MaxDrops
      \/ n >= ROWS * COLS - MaxEndgame
      \/ n < Len(MainLine) /\ MainLine[n + 1] = col /\ board = LineBoard(n)
      \/ << board, col >> \in OpeningMoves

\* ------------------------------------------------------------------------
\* Calculator (calculator.py)
\* ------------------------------------------------------------------------
\* The sixteen buttons (lines 43-48).
Buttons ==
  { "7", "8", "9", "/", "4", "5", "6", "*",
    "1", "2", "3", "-", "C", "0", "=", "+" }

\* The string '0123456789' of line 74.
DigitChars == << "0", "1", "2", "3", "4", "5", "6", "7", "8", "9" >>

IsDigit(ch) == \E i \in 1 .. Len(DigitChars) : DigitChars[i] = ch

DigitValue(ch) == ( CHOOSE i \in 1 .. Len(DigitChars) : DigitChars[i] = ch ) - 1

\* The string '+-*/' of line 86.
Operators == { "+", "-", "*", "/" }

\* The text "Error" of line 114.
ErrorText == << "E", "r", "r", "o", "r" >>

\* A Python float with an integer value below 2^53: its magnitude and its
\* sign (zero is signed).  Every value the explored presses produce is of
\* this kind.  The integer 0 of lines 19 and 83 equals the float 0.0.
Zero == [ neg |-> FALSE, mag |-> 0 ]

AllDigits(s) == s # << >> /\ \A i \in 1 .. Len(s) : IsDigit(s[i])

\* The texts of the display float() accepts: digits, or what str() makes of
\* a float: an optional sign, digits, a point and digits.
IsFloatText(s) ==
  \E body \in { IF s # << >> /\ s[1] = "-" THEN Tail(s) ELSE s } :
    \/ AllDigits(body)
    \/ \E k \in 2 .. Len(body) - 1 :
         /\ body[k] = "."
         /\ AllDigits(SubSeq(body, 1, k - 1))
         /\ AllDigits(SubSeq(body, k + 1, Len(body)))

\* The number written by a sequence of digits.
RECURSIVE DigitsNat(_)
DigitsNat(s) ==
  IF s = << >> THEN 0
  ELSE 10 * DigitsNat(SubSeq(s, 1, Len(s) - 1)) + DigitValue(s[Len(s)])

\* The digits of s before the point, if any.
WholePart(s) ==
  IF \E k \in 1 .. Len(s) : s[k] = "."
    THEN SubSeq(s, 1, ( CHOOSE k \in 1 .. Len(s) : s[k] = "." ) - 1)
    ELSE s

\* float(s) for a text float() accepts whose digits after the point, if
\* any, are zeros.
Float(s) ==
  IF s[1] = "-"
    THEN [ neg |-> TRUE, mag |-> DigitsNat(WholePart(Tail(s))) ]
    ELSE [ neg |-> FALSE, mag |-> DigitsNat(WholePart(s)) ]

RECURSIVE NatDigits(_)
NatDigits(n) ==
  IF n < 10 THEN << DigitChars[n + 1] >>
  ELSE NatDigits(n \div 10) \o << DigitChars[(n % 10) + 1] >>

\* str(x) for a float with an integer value: "12.0", "-1.0", "-0.0".
FloatStr(x) ==
  ( IF x.neg THEN << "-" >> ELSE << >> ) \o NatDigits(x.mag) \o << ".", "0" >>

\* The integer that equals float x.
FloatInt(x) == IF x.neg THEN -x.mag ELSE x.mag

\* Float arithmetic on integer values; a zero result carries the sign IEEE
\* 754 gives it.
FloatNeg(x) == [ x EXCEPT !.neg = ~@ ]

FloatAdd(x, y) ==
  LET v == FloatInt(x) + FloatInt(y)
  IN  IF v > 0 THEN [ neg |-> FALSE, mag |-> v ]
      ELSE IF v < 0 THEN [ neg |-> TRUE, mag |-> -v ]
      ELSE [ neg |-> x.mag = 0 /\ x.neg /\ y.neg, mag |-> 0 ]

FloatMul(x, y) == [ neg |-> x.neg # y.neg, mag |-> x.mag * y.mag ]

\* x / y for y other than zero, where the quotient is an integer.
FloatDiv(x, y) == [ neg |-> x.neg # y.neg, mag |-> x.mag \div y.mag ]

\* Lines 101-108: result for the pending operation op.
Result(op, stored, current) ==
  IF op = "+" THEN FloatAdd(stored, current)
  ELSE IF op = "-" THEN FloatAdd(stored, FloatNeg(current))
  ELSE IF op = "*" THEN FloatMul(stored, current)
  ELSE FloatDiv(stored, current)

\* The calculator's state as one value.
calc == [ current_input |-> current_input, operation |-> operation,
          stored_value |-> stored_value, reset_screen |-> reset_screen ]

\* The state set by __init__ (lines 17-20).
NewCalc == [ current_input |-> << "0" >>, operation |-> None,
             stored_value |-> Zero, reset_screen |-> FALSE ]

\* Mutant: the guard shows "Error" and leaves reset_screen as it was.
DivisionByZeroKeepsScreen(c) == [ c EXCEPT !.current_input = ErrorText ]

\* Lines 113-115: the handler of ZeroDivisionError.
DivisionByZero(c) ==
  [ c EXCEPT !.current_input = ErrorText, !.reset_screen = TRUE ]

\* _calculate(): the state it leaves and the exception it raises, if any.
\* float() raises ValueError at line 100 for a text it does not accept;
\* line 110 raises UnboundLocalError when operation is none of the four.
_calculate(c) ==
  IF ~IsFloatText(c.current_input)
    THEN [ calc |-> c, raised |-> "ValueError" ]
  ELSE IF c.operation \notin Operators
    THEN [ calc |-> c, raised |-> "UnboundLocalError" ]
  ELSE IF c.operation = "/" /\ Float(c.current_input).mag = 0
    THEN [ calc |-> DivisionByZero(c), raised |-> None ]
  ELSE LET result == Result(c.operation, c.stored_value,
                            Float(c.current_input))
       IN  [ calc |-> [ c EXCEPT !.current_input = FloatStr(result),
                                 !.stored_value = result,
                                 !.reset_screen = TRUE ],
             raised |-> None ]

\* Lines 74-79: a digit button.
Digit(c, symbol) ==
  IF c.current_input = << "0" >> \/ c.reset_screen
    THEN [ c EXCEPT !.current_input = << symbol >>, !.reset_screen = FALSE ]
    ELSE [ c EXCEPT !.current_input = Append(c.current_input, symbol) ]

\* Lines 81-84: the button C.
Clear(c) ==
  [ c EXCEPT !.current_input = << "0" >>, !.stored_value = Zero,
             !.operation = None ]

\* Lines 89-91: after the pending operation, if any, has been calculated and
\* has left state c1, the operator button stores float(current), where
\* current is the text the display held when the button was pressed.
StoreOperand(c1, current, symbol) ==
  IF ~IsFloatText(current)
    THEN [ calc |-> c1, raised |-> "ValueError" ]
    ELSE [ calc |-> [ c1 EXCEPT !.stored_value = Float(current),
                                !.operation = symbol,
                                !.reset_screen = TRUE ],
           raised |-> None ]

\* Lines 86-91: an operator button.
Operator(c, symbol) ==
  IF c.operation # None /\ ~c.reset_screen
    THEN LET r == _calculate(c)
         IN  IF r.raised # None THEN r
             ELSE StoreOperand(r.calc, c.current_input, symbol)
    ELSE StoreOperand(c, c.current_input, symbol)

\* Lines 93-96: the button =.
Equals(c) ==
  IF c.operation # None
    THEN LET r == _calculate(c)
         IN  IF r.raised # None THEN r
             ELSE [ calc |-> [ r.calc EXCEPT !.operation = None ],
                    raised |-> None ]
    ELSE [ calc |-> c, raised |-> None ]

\* _on_button_click(symbol) as a function of the state c: the state it
\* leaves and the exception it raises, if any.
ButtonClick(c, symbol) ==
  IF IsDigit(symbol) THEN [ calc |-> Digit(c, symbol), raised |-> None ]
  ELSE IF symbol = "C" THEN [ calc |-> Clear(c), raised |-> None ]
  ELSE IF symbol \in Operators THEN Operator(c, symbol)
  ELSE IF symbol = "=" THEN Equals(c)
  ELSE [ calc |-> c, raised |-> None ]

\* ------------------------------------------------------------------------
\* Tic-Tac-Toe (tic-tac-toe.py)
\* ------------------------------------------------------------------------
SIZE == 3
X == "X"
O == "O"

Idx == 0 .. SIZE - 1

\* The game state as one value.
ttt_game == [ board |-> ttt_board, current_player |-> ttt_current_player,
              game_over |-> ttt_game_over ]

\* The game state set by __init__ (lines 33-35) and by reset_game.
NewTTT == [ board |-> [ r \in Idx |-> [ c \in Idx |-> None ] ],
            current_player |-> X, game_over |-> FALSE ]

\* The lines _check_winner examines, in its order: the rows (lines 144-146),
\* the columns (149-151), the main diagonal (154-155) and the anti-diagonal
\* (158-159), each with its cells in the order they are returned.
Lines ==
  [ r \in 1 .. SIZE |-> [ c \in 1 .. SIZE |-> << r - 1, c - 1 >> ] ]
    \o [ c \in 1 .. SIZE |-> [ r \in 1 .. SIZE |-> << r - 1, c - 1 >> ] ]
    \o << [ i \in 1 .. SIZE |-> << i - 1, i - 1 >> ] >>
    \o << [ i \in 1 .. SIZE |-> << i - 1, SIZE - i >> ] >>

\* Mutant: a line counts as soon as its first two cells hold the same mark.
LineCompleteFirstTwo(b, line) ==
  /\ b[line[1][1]][line[1][2]] # None
  /\ b[line[2][1]][line[2][2]] = b[line[1][1]][line[1][2]]

\* The test of lines 145, 150, 154 and 158: the first cell of the line holds
\* a mark and all its cells hold that mark.
LineComplete(b, line) ==
  /\ b[line[1][1]][line[1][2]] # None
  /\ \A i \in 1 .. SIZE :
       b[line[i][1]][line[i][2]] = b[line[1][1]][line[1][2]]

\* _check_winner(): the mark and the cells of the first complete line.
ttt_check_winner(b) ==
  IF \E k \in 1 .. Len(Lines) : LineComplete(b, Lines[k])
    THEN LET k == CHOOSE k \in 1 .. Len(Lines) :
                    /\ LineComplete(b, Lines[k])
                    /\ \A j \in 1 .. k - 1 : ~LineComplete(b, Lines[j])
         IN  [ winner |-> b[Lines[k][1][1]][Lines[k][1][2]],
               coords |-> Lines[k] ]
    ELSE [ winner |-> None, coords |-> << >> ]

\* _is_board_full(): every square is filled.
ttt_is_board_full(b) == \A r \in Idx : \A c \in Idx : b[r][c] # None

\* Mutant: the full board is tested before the winner.
AfterMarkDrawFirst(g, b, res) ==
  IF ttt_is_board_full(b)
    THEN [ game |-> [ g EXCEPT !.board = b, !.game_over = TRUE ],
           winner |-> res.winner, notice |-> "draw" ]
  ELSE IF res.winner # None
    THEN [ game |-> [ g EXCEPT !.board = b, !.game_over = TRUE ],
           winner |-> res.winner, notice |-> "wins" ]
  ELSE [ game |-> [ g EXCEPT !.board = b,
                             !.current_player = IF @ = X THEN O ELSE X ],
         winner |-> res.winner, notice |-> None ]

\* Mutant: a win is announced and the game goes on.
AfterMarkWinGoesOn(g, b, res) ==
  IF res.winner # None
    THEN [ game |-> [ g EXCEPT !.board = b,
                               !.current_player = IF @ = X THEN O ELSE X ],
           winner |-> res.winner, notice |-> "wins" ]
  ELSE IF ttt_is_board_full(b)
    THEN [ game |-> [ g EXCEPT !.board = b, !.game_over = TRUE ],
           winner |-> res.winner, notice |-> "draw" ]
  ELSE [ game |-> [ g EXCEPT !.board = b,
                             !.current_player = IF @ = X THEN O ELSE X ],
         winner |-> res.winner, notice |-> None ]

\* Lines 113-127: the result of the move that produced board b, where res is
\* what _check_winner returned for it: the game state, the winner returned
\* and the notice shown ("wins" for "Player ... wins!", "draw").
AfterMark(g, b, res) ==
  IF res.winner # None
    THEN [ game |-> [ g EXCEPT !.board = b, !.game_over = TRUE ],
           winner |-> res.winner, notice |-> "wins" ]
  ELSE IF ttt_is_board_full(b)
    THEN [ game |-> [ g EXCEPT !.board = b, !.game_over = TRUE ],
           winner |-> res.winner, notice |-> "draw" ]
  ELSE [ game |-> [ g EXCEPT !.board = b,
                             !.current_player = IF @ = X THEN O ELSE X ],
         winner |-> res.winner, notice |-> None ]

\* Mutant: a click on a filled cell is not ignored.
CellTakenNever(g, row, col) == FALSE

\* Line 105: the cell is already filled.
CellTaken(g, row, col) == g.board[row][col] # None

\* _on_click(row, col) as a function of the game state g.
TTTClick(g, row, col) ==
  IF g.game_over THEN [ game |-> g, winner |-> None, notice |-> None ]
  ELSE IF CellTaken(g, row, col)
    THEN [ game |-> g, winner |-> None, notice |-> None ]
  ELSE LET b == [ g.board EXCEPT ![row][col] = g.current_player ]
       IN  AfterMark(g, b, ttt_check_winner(b))

\* ------------------------------------------------------------------------
\* Actions
\* ------------------------------------------------------------------------
Init ==
  /\ board = NewGame.board
  /\ current_player = NewGame.current_player
  /\ game_over = NewGame.game_over
  /\ win_coords = NewGame.win_coords
  /\ ev = [ op |-> "init" ]
  /\ current_input = NewCalc.current_input
  /\ operation = NewCalc.operation
  /\ stored_value = NewCalc.stored_value
  /\ reset_screen = NewCalc.reset_screen
  /\ pressed = << >>
  /\ raised = None
  /\ ttt_board = NewTTT.board
  /\ ttt_current_player = NewTTT.current_player
  /\ ttt_game_over = NewTTT.game_over
  /\ ttt_ev = [ op |-> "init" ]

_on_click(col) ==
  \E out \in { Click(game, col) } :
    /\ board' = out.game.board
    /\ current_player' = out.game.current_player
    /\ game_over' = out.game.game_over
    /\ win_coords' = out.game.win_coords
    /\ ev' = [ op |-> "click", col |-> col, row |-> out.target_row ]
    /\ UNCHANGED << calcVars, tttVars >>

\* The status of game state g.
Status(g) ==
  IF ~g.game_over THEN "InProgress"
  ELSE IF g.win_coords # << >> THEN "Won"
  ELSE "Drawn"

\* Mutant: the winning line of the last game is kept.
ResetKeepsWinCoords ==
  /\ board' = NewGame.board
  /\ current_player' = NewGame.current_player
  /\ game_over' = NewGame.game_over
  /\ win_coords' = win_coords
  /\ ev' = [ op |-> "reset", before |-> Status(game) ]
  /\ UNCHANGED << calcVars, tttVars >>

\* reset_game(), the command of the Reset Game button.
reset_game ==
  /\ board' = NewGame.board
  /\ current_player' = NewGame.current_player
  /\ game_over' = NewGame.game_over
  /\ win_coords' = NewGame.win_coords
  /\ ev' = [ op |-> "reset", before |-> Status(game) ]
  /\ UNCHANGED << calcVars, tttVars >>

\* str.lower() on the characters of KeyChars.
Lower(char) == IF char = "R" THEN "r" ELSE char

\* _on_key: 'r' or 'R' calls reset_game, any other key does nothing.
_on_key(char) ==
  /\ IF Lower(char) = "r"
       THEN /\ board' = NewGame.board
            /\ current_player' = NewGame.current_player
            /\ game_over' = NewGame.game_over
            /\ win_coords' = NewGame.win_coords
       ELSE UNCHANGED << board, current_player, game_over, win_coords >>
  /\ ev' = [ op |-> "key", char |-> char, before |-> Status(game) ]
  /\ UNCHANGED << calcVars, tttVars >>

Next ==
  \/ \E n \in { Pieces(board) } :
       \E col \in { c \in ClickCols : Explored(c, n) } : _on_click(col)
  \/ reset_game
  \/ \E char \in KeyChars : _on_key(char)

Spec == Init /\ [][Next]_vars

\* ------------------------------------------------------------------------
\* Connect Four played to the end: no reset, and drops keep being made
\* ------------------------------------------------------------------------
\* The moves of MainLine: the board before the click and the column clicked.
MainLineMoves ==
  { << LineBoard(n), MainLine[n + 1] >> : n \in 0 .. Len(MainLine) - 1 }

\* With n discs on the board the players drop along MainLine, and anywhere
\* once at most MaxEndgamePlay cells are empty.
FollowsOn(col, n) ==
  \/ n >= ROWS * COLS - MaxEndgamePlay
  \/ << board, col >> \in MainLineMoves

\* A click that drops a disc.
Play ==
  \E n \in { Pieces(board) } :
    \E col \in { c \in ColIdx : FollowsOn(c, n) } :
      _on_click(col) /\ board' # board

\* A click that drops none: beside the board, on a full column, or after
\* the game is over.
ClickInVain == \E col \in ClickCols : _on_click(col) /\ board' = board

NextPlay ==
  \/ Play
  \/ ClickInVain
  \/ _on_key("x")

\* The players keep dropping discs for as long as a drop is possible.
SpecPlay == Init /\ [][NextPlay]_vars /\ WF_vars(Play)

\* ------------------------------------------------------------------------
\* Calculator: the user and the actions
\* ------------------------------------------------------------------------
\* Recorded chains of presses: three numbers, two operators between them,
\* the button = and one digit more.
Operands == { << "0" >>, << "2" >>, << "3" >>, << "1", "2" >> }

Chains ==
  { a \o << o1 >> \o b \o << o2 >> \o c \o << "=", d >> :
      a \in Operands, b \in Operands, c \in Operands,
      o1 \in Operators, o2 \in Operators, d \in { "0", "7" } }

ChainPrefixes ==
  UNION { { SubSeq(ch, 1, n) : n \in 0 .. Len(ch) } : ch \in Chains }

\* The press would calculate a pending division whose quotient is not an
\* integer.
InexactDivision(c, symbol) ==
  /\ c.operation = "/"
  /\ symbol = "=" \/ ( symbol \in Operators /\ ~c.reset_screen )
  /\ IsFloatText(c.current_input)
  /\ Float(c.current_input).mag # 0
  /\ c.stored_value.mag % Float(c.current_input).mag # 0

\* A press is explored during the first MaxPresses presses and along the
\* recorded chains, unless it is an inexact division.
ExploredPress(symbol) ==
  /\ Len(pressed) < MaxPresses \/ Append(pressed, symbol) \in ChainPrefixes
  /\ ~InexactDivision(calc, symbol)

_on_button_click(symbol) ==
  \E out \in { ButtonClick(calc, symbol) } :
    /\ current_input' = out.calc.current_input
    /\ operation' = out.calc.operation
    /\ stored_value' = out.calc.stored_value
    /\ reset_screen' = out.calc.reset_screen
    /\ pressed' = Append(pressed, symbol)
    /\ raised' = out.raised
    /\ UNCHANGED << cfVars, tttVars >>

NextCalc ==
  \E symbol \in { b \in Buttons : ExploredPress(b) } : _on_button_click(symbol)

SpecCalc == Init /\ [][NextCalc]_vars

\* ------------------------------------------------------------------------
\* Tic-Tac-Toe: the actions
\* ------------------------------------------------------------------------
ttt_on_click(row, col) ==
  \E out \in { TTTClick(ttt_game, row, col) } :
    /\ ttt_board' = out.game.board
    /\ ttt_current_player' = out.game.current_player
    /\ ttt_game_over' = out.game.game_over
    /\ ttt_ev' = [ op |-> "click", row |-> row, col |-> col,
                   winner |-> out.winner, notice |-> out.notice ]
    /\ UNCHANGED << cfVars, calcVars >>

\* reset_game(), the command of the Reset Game button.
ttt_reset_game ==
  /\ ttt_board' = NewTTT.board
  /\ ttt_current_player' = NewTTT.current_player
  /\ ttt_game_over' = NewTTT.game_over
  /\ ttt_ev' = [ op |-> "reset" ]
  /\ UNCHANGED << cfVars, calcVars >>

\* _on_key: 'r' or 'R' calls reset_game, any other key does nothing.
ttt_on_key(char) ==
  /\ IF Lower(char) = "r"
       THEN /\ ttt_board' = NewTTT.board
            /\ ttt_current_player' = NewTTT.current_player
            /\ ttt_game_over' = NewTTT.game_over
       ELSE UNCHANGED << ttt_board, ttt_current_player, ttt_game_over >>
  /\ ttt_ev' = [ op |-> "key", char |-> char ]
  /\ UNCHANGED << cfVars, calcVars >>

NextTTT ==
  \/ \E row \in Idx : \E col \in Idx : ttt_on_click(row, col)
  \/ ttt_reset_game
  \/ \E char \in KeyChars : ttt_on_key(char)

SpecTTT == Init /\ [][NextTTT]_vars

\* ------------------------------------------------------------------------
\* Vocabulary of the properties
\* ------------------------------------------------------------------------
Cells == RowIdx \X ColIdx

AllFilled(b) == \A rc \in Cells : b[rc[1]][rc[2]] # None

ColumnHasRoom(b, col) == \E r \in RowIdx : b[r][col] = None

\* Four cells in a row of colour p along axis d, one of them (r, c): some
\* window of four consecutive cells of the axis that contains (r, c) lies on
\* the board and holds only p.
FourAlong(b, r, c, p, d) ==
  \E s \in 0 .. 3 : \A i \in 0 .. 3 :
    /\ InBoard(r + (i - s) * d[1], c + (i - s) * d[2])
    /\ b[r + (i - s) * d[1]][c + (i - s) * d[2]] = p

\* The four axes in the order horizontal, vertical, diagonal down-right,
\* diagonal down-left.
Axes == << <<0, 1>>, <<1, 0>>, <<1, 1>>, <<1, -1>> >>

FourThrough(b, r, c, p) == \E k \in 1 .. 4 : FourAlong(b, r, c, p, Axes[k])

\* The step is a click that dropped a disc: the cells that changed.
Changed == { rc \in Cells : board'[rc[1]][rc[2]] # board[rc[1]][rc[2]] }

GameUnchanged == UNCHANGED << board, current_player, game_over, win_coords >>

\* The step is a reset: the Reset Game button, or the key 'r' or 'R'.
IsReset == ev'.op = "reset" \/ ( ev'.op = "key" /\ ev'.char \in { "r", "R" } )

\* The last event was a click that dropped a disc at (ev.row, ev.col).
Dropped == ev.op = "click" /\ ev.row # NoRow

Won == game_over /\ win_coords # << >>
Drawn == game_over /\ win_coords = << >>

\* ------------------------------------------------------------------------
\* C1..C4: board cells and rejected clicks
\* ------------------------------------------------------------------------
\* C1: a cell that holds a player's colour keeps that colour over every
\* click, on any column, valid or not; only reset_game empties cells.
C1_CellsKeepColour ==
  [][ ~IsReset =>
        \A rc \in Cells :
          board[rc[1]][rc[2]] # None =>
            board'[rc[1]][rc[2]] = board[rc[1]][rc[2]] ]_vars

\* A click has dropped a disc on a board that already held discs.
C1_Witness == Dropped /\ Pieces(board) >= 3

\* C2: once game_over is True every click leaves board, current_player,
\* game_over and win_coords unchanged, and only a reset leaves game_over.
C2_TerminalAbsorbing ==
  [][ game_over =>
        /\ ev'.op = "click" => GameUnchanged
        /\ ~game_over' => IsReset ]_vars

\* A click on a column with room was ignored in a drawn game.
C2_Witness ==
  /\ Drawn
  /\ ev.op = "click" /\ ev.col \in ColIdx /\ ev.row = NoRow

\* Same, in a won game whose clicked column still has room.
C2_WitnessWon ==
  /\ Won
  /\ ev.op = "click" /\ ev.col \in ColIdx /\ ev.row = NoRow
  /\ ColumnHasRoom(board, ev.col)

\* C3: a click on a column with an Empty cell while the game is in progress
\* changes exactly one cell: the Empty cell of that column with the largest
\* row index takes current_player's colour.
C3_DropLowestEmpty ==
  [][ ( /\ ev'.op = "click" /\ ev'.col \in ColIdx
        /\ ~game_over
        /\ ColumnHasRoom(board, ev'.col) ) =>
        \E r \in RowIdx :
          /\ board[r][ev'.col] = None
          /\ \A q \in RowIdx : board[q][ev'.col] = None => q <= r
          /\ board'[r][ev'.col] = current_player
          /\ Changed = { <<r, ev'.col>> } ]_vars

\* A disc was dropped on top of other discs of its column.
C3_Witness == Dropped /\ ev.row < ROWS - 1 /\ ev.row > 0

\* C4: a click on a column that holds 6 discs changes nothing: board,
\* current_player, game_over and win_coords are as before.
C4_FullColumnRejected ==
  [][ ( /\ ev'.op = "click" /\ ev'.col \in ColIdx
        /\ \A r \in RowIdx : board[r][ev'.col] # None ) =>
        GameUnchanged ]_vars

\* A click on a full column was rejected while the game was in progress.
C4_Witness ==
  /\ ~game_over
  /\ ev.op = "click" /\ ev.col \in ColIdx /\ ev.row = NoRow
  /\ Height(board, ev.col) = ROWS

\* ------------------------------------------------------------------------
\* C5..C7: turns, results and the full board
\* ------------------------------------------------------------------------
\* The rows of the clicked column whose cell the step changed.
DropRows == { r \in RowIdx : board'[r][ev'.col] # board[r][ev'.col] }

\* The step changed the board, and the disc it put at row r of the clicked
\* column completed four in a row of its colour.
DropMadeLine(r) == FourThrough(board', r, ev'.col, board'[r][ev'.col])

\* C5: current_player switches to the other player exactly on a click that
\* drops a disc which neither completes a line nor fills the board; every
\* other click leaves it unchanged, and after reset it is Red.
C5_PlayerAlternates ==
  [][ /\ IsReset => current_player' = RED
      /\ ( ev'.op = "key" /\ ~IsReset ) => current_player' = current_player
      /\ ev'.op = "click" =>
           IF board' = board THEN current_player' = current_player
           ELSE \E r \in DropRows :
                  IF ~DropMadeLine(r) /\ ~AllFilled(board')
                    THEN current_player' = Other(current_player)
                    ELSE current_player' = current_player ]_vars

\* The turn has passed twice: Red is to move again after Yellow's drop.
C5_Witness ==
  /\ Dropped /\ ~game_over
  /\ board[ev.row][ev.col] = YELLOW /\ current_player = RED

\* A winning drop has left the winner's colour as current_player.
C5_WitnessWinKeepsPlayer ==
  Dropped /\ Won /\ current_player = board[ev.row][ev.col]

\* C6: after a click that drops a disc the game is Won when the disc
\* completes four or more in a row (also when it fills the last cell),
\* otherwise Drawn when the board is full, otherwise in progress.
C6_StatusAfterDrop ==
  [][ ( ev'.op = "click" /\ board' # board ) =>
        \E r \in DropRows :
          IF DropMadeLine(r) THEN game_over' /\ win_coords' # << >>
          ELSE IF AllFilled(board') THEN game_over' /\ win_coords' = << >>
          ELSE ~game_over' /\ win_coords' = << >> ]_vars

\* The drop into the last empty cell completed a line: the game is Won.
C6_Witness == Dropped /\ AllFilled(board) /\ Won

\* The drop into the last empty cell completed no line: the game is Drawn.
C6_WitnessDrawn == Dropped /\ AllFilled(board) /\ Drawn

\* C7: _is_board_full, which reads row 0 only, is True exactly when all 42
\* cells are non-Empty.
C7_TopRowFullIffAllFilled == _is_board_full(board) <=> AllFilled(board)

\* The board is full and _is_board_full says so.
C7_Witness == _is_board_full(board) /\ Pieces(board) = ROWS * COLS

\* Some column is full while the board is not: the top row is partly filled.
C7_WitnessPartTopRow ==
  /\ \E c \in ColIdx : board[0][c] # None
  /\ ~_is_board_full(board)

\* ------------------------------------------------------------------------
\* C8..C10: win detection
\* ------------------------------------------------------------------------
\* The cells that can have been placed last: the top disc of each column.
TopCells(b) ==
  { rc \in Cells :
      /\ b[rc[1]][rc[2]] # None
      /\ rc[1] = 0 \/ b[rc[1] - 1][rc[2]] = None }

NoWin == [ winner |-> None, coords |-> << >> ]

\* C8: for the board of every reachable state and every cell (row, col) that
\* can have been placed last, owned by p, _check_winner reports the winner p
\* exactly when p's contiguous run through (row, col) along some axis has
\* length at least 4, and otherwise reports no winner and no coordinates;
\* and win_coords after a drop is the list it returns for that drop.
C8_WinnerIffRunOfFour ==
  /\ \A rc \in TopCells(board) :
       \E p \in { board[rc[1]][rc[2]] } :
       \E res \in { _check_winner(board, p, rc[1], rc[2]) } :
         IF FourThrough(board, rc[1], rc[2], p)
           THEN res.winner = p /\ Len(res.coords) >= 4
           ELSE res = NoWin
  /\ Dropped =>
       win_coords =
         _check_winner(board, board[ev.row][ev.col], ev.row, ev.col).coords

\* A drop has joined two shorter runs into a winning run of five or more.
C8_Witness == Dropped /\ Won /\ Len(win_coords) >= 5

\* A drop has made three in a row but no four: no winner is reported.
C8_WitnessThree ==
  /\ Dropped /\ ~game_over
  /\ \E k \in 1 .. 4 :
       Len(LineCoords(board, board[ev.row][ev.col], ev.row, ev.col, Axes[k])) = 3

\* The set of cells of a sequence of coordinates.
CoordSet(coords) == { coords[i] : i \in 1 .. Len(coords) }

\* The n cells from cell a on along axis d.
Segment(a, d, n) == { << a[1] + i * d[1], a[2] + i * d[2] >> : i \in 0 .. n - 1 }

\* C9: in state Won, win_coords lists at least 4 distinct cells of the
\* board that form a gapless segment of one of the four axes, all of the
\* winner's colour, the cell of the last drop among them.
C9_WinningLine ==
  Won =>
    \E n \in { Len(win_coords) } : \E S \in { CoordSet(win_coords) } :
      /\ n >= 4
      /\ Cardinality(S) = n
      /\ S \subseteq Cells
      /\ \E k \in 1 .. 4 : \E a \in S : S = Segment(a, Axes[k], n)
      /\ \A rc \in S : board[rc[1]][rc[2]] = current_player
      /\ win_coords[1] \in TopCells(board)
      /\ Dropped => win_coords[1] = << ev.row, ev.col >>

\* A game was won along a diagonal, the last drop in the middle of the line.
C9_Witness ==
  /\ Dropped /\ Won
  /\ win_coords[2][1] # win_coords[1][1] /\ win_coords[2][2] # win_coords[1][2]
  /\ \E i \in 1 .. Len(win_coords) : win_coords[i][1] < ev.row
  /\ \E i \in 1 .. Len(win_coords) : win_coords[i][1] > ev.row

\* The axes along which the disc just dropped lies in four in a row.
WinningAxes ==
  { k \in 1 .. 4 :
      FourAlong(board, ev.row, ev.col, board[ev.row][ev.col], Axes[k]) }

\* The cells of coords all lie on the line through cell o along axis d.
OnAxis(coords, o, d) ==
  \A i \in 1 .. Len(coords) :
    \E t \in -COLS .. COLS :
      coords[i] = << o[1] + t * d[1], o[2] + t * d[2] >>

\* C10: when the disc just dropped completes runs of at least 4 along more
\* than one axis, win_coords is the line along the first of these axes in
\* the order horizontal, vertical, diagonal down-right, diagonal down-left.
C10_FirstAxisWins ==
  ( Dropped /\ Won ) =>
    \E Q \in { WinningAxes } :
      Cardinality(Q) >= 2 =>
        \E k \in Q :
          /\ \A j \in Q : k <= j
          /\ OnAxis(win_coords, << ev.row, ev.col >>, Axes[k])

\* A drop has completed a vertical and a diagonal line, but no horizontal.
C10_Witness ==
  /\ Dropped /\ Won
  /\ 2 \in WinningAxes /\ 1 \notin WinningAxes /\ Cardinality(WinningAxes) >= 2

\* A drop has completed a horizontal line and another line.
C10_WitnessHorizontal ==
  Dropped /\ Won /\ 1 \in WinningAxes /\ Cardinality(WinningAxes) >= 2

\* A drop has completed both diagonals and nothing else.
C10_WitnessDiagonals == Dropped /\ Won /\ WinningAxes = { 3, 4 }

\* ------------------------------------------------------------------------
\* C11..C12: the scenarios of a vertical and of a diagonal win
\* ------------------------------------------------------------------------
\* The last drop landed at (2, 3) on three discs of its own colour, so that
\* one player holds rows 5, 4, 3 and 2 of column 3, and it completed no
\* horizontal line.
VerticalScenario ==
  /\ Dropped /\ ev.row = 2 /\ ev.col = 3
  /\ \A r \in 3 .. 5 : board[r][3] = board[2][3]
  /\ 1 \notin WinningAxes

\* C11 as stated: in the vertical scenario the drop is reported as Won for
\* its player with the coordinate list [(5,3), (4,3), (3,3), (2,3)], in
\* that order.
C11_VerticalListBottomUp ==
  VerticalScenario =>
    /\ Won /\ current_player = board[2][3]
    /\ win_coords = << <<5, 3>>, <<4, 3>>, <<3, 3>>, <<2, 3>> >>

\* C11 as amended: in the vertical scenario the drop is reported as Won for
\* its player with the coordinate list [(2,3), (3,3), (4,3), (5,3)]: the
\* cell of the drop first, then the cells below it from the top down.
C11_VerticalListFromDrop ==
  VerticalScenario =>
    /\ Won /\ current_player = board[2][3]
    /\ win_coords = << <<2, 3>>, <<3, 3>>, <<4, 3>>, <<5, 3>> >>

\* The seventh drop of a game was a player's fourth in column 3 and won.
C11_Witness == VerticalScenario /\ Won /\ Pieces(board) = 7

\* Same for the second player, on the eighth drop.
C11_WitnessYellow ==
  VerticalScenario /\ Won /\ board[2][3] = YELLOW /\ Pieces(board) = 8

\* The last drop landed at (2, 3) and one player holds (5,0), (4,1), (3,2)
\* and (2,3); these four cells are the only line of four through (2, 3).
DiagonalScenario ==
  /\ Dropped /\ ev.row = 2 /\ ev.col = 3
  /\ board[5][0] = board[2][3]
  /\ board[4][1] = board[2][3]
  /\ board[3][2] = board[2][3]
  /\ board[1][4] # board[2][3]
  /\ WinningAxes = { 4 }

\* C12 as stated: in the diagonal scenario the win check at (2, 3) reports
\* Won with the coordinate list [(5,0), (4,1), (3,2), (2,3)], in that order.
C12_DiagonalListBottomUp ==
  DiagonalScenario =>
    /\ Won /\ current_player = board[2][3]
    /\ win_coords = << <<5, 0>>, <<4, 1>>, <<3, 2>>, <<2, 3>> >>

\* C12 as amended: in the diagonal scenario the win check at (2, 3) reports
\* Won with the coordinate list [(2,3), (3,2), (4,1), (5,0)]: the cell
\* placed last first, then the cells down the diagonal.
C12_DiagonalListFromDrop ==
  DiagonalScenario =>
    /\ Won /\ current_player = board[2][3]
    /\ win_coords = << <<2, 3>>, <<3, 2>>, <<4, 1>>, <<5, 0>> >>

\* The diagonal was completed at (2, 3) with the discs carrying it below.
C12_Witness ==
  /\ DiagonalScenario /\ Won
  /\ board[5][1] # None /\ board[4][2] # None /\ board[3][3] # None

\* ------------------------------------------------------------------------
\* C13: mirroring
\* ------------------------------------------------------------------------
\* The board with column j swapped with column 6 - j, and the same for a
\* cell and for a set of cells.
MirrorBoard(b) == [ r \in RowIdx |-> [ c \in ColIdx |-> b[r][COLS - 1 - c] ] ]
MirrorCell(rc) == << rc[1], COLS - 1 - rc[2] >>
MirrorSet(S) == { MirrorCell(rc) : rc \in S }

\* The disc of colour p at (r, c) lies in four in a row along both diagonals
\* and along neither the horizontal nor the vertical.
BothDiagonalsOnly(b, r, c, p) ==
  /\ FourAlong(b, r, c, p, Axes[3]) /\ FourAlong(b, r, c, p, Axes[4])
  /\ ~FourAlong(b, r, c, p, Axes[1]) /\ ~FourAlong(b, r, c, p, Axes[2])

\* C13 as stated: for the disc just dropped at (r, c), the win check on the
\* mirrored board at (r, 6 - c) reports a win for the same player exactly
\* when the check on the board at (r, c) does, and the set of cells it
\* reports is the mirror image of the set reported for the board.
C13_MirrorImageAlways ==
  Dropped =>
    \E p \in { board[ev.row][ev.col] } :
    \E res \in { _check_winner(board, p, ev.row, ev.col) } :
    \E resM \in { _check_winner(MirrorBoard(board), p,
                                 ev.row, COLS - 1 - ev.col) } :
      /\ resM.winner = res.winner
      /\ CoordSet(resM.coords) = MirrorSet(CoordSet(res.coords))

\* C13 as amended: for every cell (r, c) that can have been placed last, the
\* win check on the mirrored board at (r, 6 - c) reports a win for the same
\* player exactly when the check on the board at (r, c) does, and the set
\* of cells it reports is the mirror image of the set reported for the
\* board, except when the disc completes lines along both diagonals and
\* along neither the horizontal nor the vertical: then the check on the
\* board reports the down-right line and the check on the mirrored board
\* the mirror image of the down-left line.
C13_MirrorImage ==
  \A rc \in TopCells(board) :
    \E p \in { board[rc[1]][rc[2]] } :
    \E res \in { _check_winner(board, p, rc[1], rc[2]) } :
    \E resM \in { _check_winner(MirrorBoard(board), p,
                                 rc[1], COLS - 1 - rc[2]) } :
      /\ resM.winner = res.winner
      /\ IF BothDiagonalsOnly(board, rc[1], rc[2], p)
           THEN /\ OnAxis(res.coords, rc, Axes[3])
                /\ CoordSet(resM.coords)
                     = MirrorSet(CoordSet(LineCoords(board, p, rc[1], rc[2],
                                                     Axes[4])))
           ELSE CoordSet(resM.coords) = MirrorSet(CoordSet(res.coords))

\* A drop beside the middle column has won along the diagonal down-left
\* only: the mirrored board is won along the diagonal down-right.
C13_Witness ==
  /\ Dropped /\ Won /\ ev.col # 3
  /\ WinningAxes = { 4 }
  /\ _check_winner(MirrorBoard(board), current_player,
                    ev.row, COLS - 1 - ev.col).winner = current_player

\* A drop has won along both diagonals: the two checks report lines that
\* are not mirror images of each other.
C13_WitnessBothDiagonals ==
  /\ Dropped /\ Won
  /\ BothDiagonalsOnly(board, ev.row, ev.col, current_player)
  /\ CoordSet(_check_winner(MirrorBoard(board), current_player,
                             ev.row, COLS - 1 - ev.col).coords)
       # MirrorSet(CoordSet(win_coords))

\* ------------------------------------------------------------------------
\* C14: the lines one drop completes
\* ------------------------------------------------------------------------
\* C14 as stated: in no reachable state does the disc just dropped lie in
\* runs of at least 4 along two or more of the four axes.
C14_AtMostOneAxis == Dropped => Cardinality(WinningAxes) <= 1

\* The axes on whose line through the disc just dropped all of win_coords
\* lies.
ReportedAxes ==
  { k \in 1 .. 4 : OnAxis(win_coords, << ev.row, ev.col >>, Axes[k]) }

\* C14 as amended: a single drop can complete runs of at least 4 along two
\* or more of the four axes at once, and the win check still reports one
\* winning line only: after a winning drop win_coords lies along exactly one
\* axis, one of those along which the disc completes a run.
C14_OneLineReported ==
  ( Dropped /\ Won ) =>
    /\ Cardinality(ReportedAxes) = 1
    /\ ReportedAxes \subseteq WinningAxes

\* A drop has completed lines along three axes at once.
C14_Witness == Dropped /\ Won /\ Cardinality(WinningAxes) >= 3

\* ------------------------------------------------------------------------
\* C15: reset
\* ------------------------------------------------------------------------
\* C15: from every reachable state, in progress, won or drawn, a reset (the
\* button, or the key 'r' or 'R') leaves exactly the state of a new game:
\* all 42 cells empty, game_over False, win_coords empty and Red to move.
C15_ResetGivesNewGame ==
  [][ IsReset =>
        /\ \A rc \in Cells : board'[rc[1]][rc[2]] = None
        /\ game_over' = FALSE
        /\ win_coords' = << >>
        /\ current_player' = RED ]_vars

\* The Reset Game button was pressed in a won game.
C15_Witness == ev.op = "reset" /\ ev.before = "Won" /\ game = NewGame

\* The key 'R' was pressed in a drawn game.
C15_WitnessDrawnKey ==
  ev.op = "key" /\ ev.char = "R" /\ ev.before = "Drawn" /\ game = NewGame

\* The key 'r' was pressed in a game in progress.
C15_WitnessInProgressKey ==
  ev.op = "key" /\ ev.char = "r" /\ ev.before = "InProgress" /\ game = NewGame

\* ------------------------------------------------------------------------
\* C16..C17: the calculator
\* ------------------------------------------------------------------------
\* The button pressed last, in the state after the press.
LastPressed == pressed[Len(pressed)]

\* x op y on the integers.
IntOp(op, x, y) ==
  IF op = "+" THEN x + y ELSE IF op = "-" THEN x - y ELSE x * y

\* The presses so far are a, op1, b, op2, c and '=', where op1 is press i
\* and op2 is press j, both among +, - and *, and a, b and c are sequences
\* of digits.
IsChain(i, j) ==
  /\ 1 < i /\ i + 1 < j /\ j + 1 < Len(pressed)
  /\ LastPressed = "="
  /\ pressed[i] \in { "+", "-", "*" } /\ pressed[j] \in { "+", "-", "*" }
  /\ AllDigits(SubSeq(pressed, 1, i - 1))
  /\ AllDigits(SubSeq(pressed, i + 1, j - 1))
  /\ AllDigits(SubSeq(pressed, j + 1, Len(pressed) - 1))

\* The value of (a op1 b) op2 c for the chain with operators at i and j.
ChainValue(i, j) ==
  IntOp(pressed[j],
        IntOp(pressed[i], DigitsNat(SubSeq(pressed, 1, i - 1)),
                          DigitsNat(SubSeq(pressed, i + 1, j - 1))),
        DigitsNat(SubSeq(pressed, j + 1, Len(pressed) - 1)))

\* C16: after the presses a, op1, b, op2, c, '=' on a new calculator, with
\* op1 and op2 among +, - and *, the display shows the value of
\* (a op1 b) op2 c.
C16_LeftToRight ==
  \A i \in 1 .. Len(pressed) : \A j \in 1 .. Len(pressed) :
    IsChain(i, j) =>
      /\ IsFloatText(current_input)
      /\ FloatInt(Float(current_input)) = ChainValue(i, j)

\* The step presses a button that calculates a pending division by a
\* displayed zero: '=', or an operator after an operand was entered.
DividesByZero ==
  /\ operation = "/"
  /\ IsFloatText(current_input) /\ Float(current_input).mag = 0
  /\ \/ LastPressed' = "="
     \/ LastPressed' \in Operators /\ ~reset_screen

\* C17: when a pending '/' is calculated with a displayed zero, by '=' or by
\* a following operator, the display becomes "Error" and _calculate leaves
\* stored_value as it was (so does the whole press when the button is '=');
\* and a digit pressed while the display shows "Error" replaces it.
C17_DivideByZeroGuard ==
  [][ /\ DividesByZero =>
           /\ current_input' = ErrorText
           /\ raised' = None
           /\ _calculate(calc).calc.stored_value = stored_value
           /\ LastPressed' = "=" => stored_value' = stored_value
      /\ ( current_input = ErrorText /\ IsDigit(LastPressed') ) =>
           /\ current_input' = << LastPressed' >>
           /\ ~reset_screen' ]_vars

\* A division by zero was calculated by '=' and the next press, a digit,
\* has replaced "Error".
C17_Witness ==
  /\ Len(pressed) >= 5
  /\ SubSeq(pressed, Len(pressed) - 3, Len(pressed) - 1) = << "/", "0", "=" >>
  /\ IsDigit(LastPressed)
  /\ current_input = << LastPressed >>

\* A division by zero was calculated by a following operator: the display
\* shows "Error".
C17_WitnessOperator ==
  /\ Len(pressed) >= 4
  /\ SubSeq(pressed, Len(pressed) - 2, Len(pressed) - 1) = << "/", "0" >>
  /\ LastPressed \in Operators
  /\ current_input = ErrorText

\* The displayed zero was itself a result, "0.0".
C17_WitnessZeroResult ==
  /\ Len(pressed) >= 2
  /\ SubSeq(pressed, Len(pressed) - 1, Len(pressed)) = << "/", "=" >>
  /\ current_input = ErrorText

\* ------------------------------------------------------------------------
\* C18: Tic-Tac-Toe
\* ------------------------------------------------------------------------
\* Some row, column or diagonal of board b consists of three equal marks.
HasLine(b) ==
  \E p \in { X, O } :
    \/ \E r \in Idx : \A c \in Idx : b[r][c] = p
    \/ \E c \in Idx : \A r \in Idx : b[r][c] = p
    \/ \A i \in Idx : b[i][i] = p
    \/ \A i \in Idx : b[i][SIZE - 1 - i] = p

NineFilled(b) == Cardinality({ rc \in Idx \X Idx : b[rc[1]][rc[2]] # None }) = 9

\* C18: a click on an empty cell while the game is in progress places
\* current_player's mark there and nothing else; the game then ends as a win
\* exactly when some row, column or diagonal consists of three equal marks,
\* as a draw exactly when there is no such line and all nine cells are
\* filled, and otherwise the turn passes to the other player.  A click on
\* an occupied cell or after game over changes no state.
C18_ClickPlacesAndDecides ==
  [][ ttt_ev'.op = "click" =>
        IF ttt_game_over \/ ttt_board[ttt_ev'.row][ttt_ev'.col] # None
          THEN /\ UNCHANGED << ttt_board, ttt_current_player, ttt_game_over >>
               /\ ttt_ev'.notice = None
          ELSE /\ ttt_board' = [ ttt_board EXCEPT
                                   ![ttt_ev'.row][ttt_ev'.col] =
                                     ttt_current_player ]
               /\ IF HasLine(ttt_board')
                    THEN /\ ttt_game_over' /\ ttt_ev'.notice = "wins"
                         /\ ttt_current_player' = ttt_current_player
                    ELSE IF NineFilled(ttt_board')
                      THEN /\ ttt_game_over' /\ ttt_ev'.notice = "draw"
                           /\ ttt_current_player' = ttt_current_player
                    ELSE /\ ~ttt_game_over' /\ ttt_ev'.notice = None
                         /\ ttt_current_player' # ttt_current_player
                         /\ ttt_current_player' \in { X, O } ]_vars

\* The ninth move has completed a line: the game ended as a win.
C18_Witness ==
  /\ ttt_ev.op = "click" /\ ttt_ev.notice = "wins"
  /\ NineFilled(ttt_board) /\ ttt_game_over

\* The ninth move completed no line: the game ended as a draw.
C18_WitnessDraw ==
  /\ ttt_ev.op = "click" /\ ttt_ev.notice = "draw"
  /\ NineFilled(ttt_board) /\ ~HasLine(ttt_board) /\ ttt_game_over

\* A click on a cell that holds the mark of the player to move was ignored
\* while the game was in progress.
C18_WitnessOccupied ==
  /\ ttt_ev.op = "click" /\ ~ttt_game_over
  /\ ttt_board[ttt_ev.row][ttt_ev.col] = ttt_current_player

\* A click on an empty cell was ignored after the game was over.
C18_WitnessAfterGameOver ==
  /\ ttt_ev.op = "click" /\ ttt_game_over
  /\ ttt_board[ttt_ev.row][ttt_ev.col] = None

\* ------------------------------------------------------------------------
\* C19..C20: Connect Four, the whole board and the end of the game
\* ------------------------------------------------------------------------
\* Four cells in a row of one colour somewhere on board b: a window of four
\* consecutive cells of some axis that starts at a filled cell, lies on the
\* board and holds one colour.
FourAnywhere(b) ==
  \E rc \in Cells : \E k \in 1 .. 4 :
    /\ b[rc[1]][rc[2]] # None
    /\ \A i \in 1 .. 3 :
         /\ InBoard(rc[1] + i * Axes[k][1], rc[2] + i * Axes[k][2])
         /\ b[rc[1] + i * Axes[k][1]][rc[2] + i * Axes[k][2]]
              = b[rc[1]][rc[2]]

\* C19: in every reachable state where game_over is False no player has
\* four contiguous cells of its colour along any horizontal, vertical or
\* diagonal line anywhere on the board.
C19_NoFourWhileInProgress == ~game_over => ~FourAnywhere(board)

\* The game is in progress with one cell left, after a drop that made three
\* in a row.
C19_Witness ==
  /\ Dropped /\ ~game_over /\ Pieces(board) = ROWS * COLS - 1
  /\ \E k \in 1 .. 4 :
       Len(LineCoords(board, board[ev.row][ev.col], ev.row, ev.col, Axes[k])) = 3


\* C20: every game ends.  While the game is in progress some column accepts
\* a drop; every accepted drop adds one disc to a board of 42 cells; and
\* when no reset occurs and drops keep being made, game_over becomes True.
C20_EveryGameEnds ==
  /\ [] ( ~game_over =>
            \E col \in ColIdx :
              /\ ColumnHasRoom(board, col)
              /\ Click(game, col).game.board # board )
  /\ [] ( Pieces(board) <= ROWS * COLS )
  /\ [][ board' # board => Pieces(board') = Pieces(board) + 1 ]_vars
  /\ <> game_over

\* The forty-second drop has ended a game that no earlier drop had ended.
C20_Witness ==
  /\ Dropped /\ game_over /\ Pieces(board) = ROWS * COLS
  /\ ev.row = 0

\* ------------------------------------------------------------------------
\* C21: Tic-Tac-Toe, the winner returned
\* ------------------------------------------------------------------------
\* The lines of the board that are complete.
CompleteLines(b) == { k \in 1 .. Len(Lines) : LineComplete(b, Lines[k]) }

\* C21: the winner _check_winner returns after a move is the player who
\* just moved, which is current_player, and the three coordinates it
\* returns all hold that player's mark; while the game is in progress the
\* scan of the whole board finds no line.
C21_WinnerIsMover ==
  /\ ( ttt_ev.op = "click" /\ ttt_ev.winner # None ) =>
       /\ ttt_ev.winner = ttt_current_player
       /\ ttt_board[ttt_ev.row][ttt_ev.col] = ttt_ev.winner
       /\ \E res \in { ttt_check_winner(ttt_board) } :
            /\ res.winner = ttt_ev.winner
            /\ Len(res.coords) = SIZE
            /\ \A i \in 1 .. Len(res.coords) :
                 ttt_board[res.coords[i][1]][res.coords[i][2]]
                   = ttt_current_player
  /\ ~ttt_game_over => CompleteLines(ttt_board) = { }

\* O has won on the anti-diagonal, the line examined last, with the move in
\* the middle cell.
C21_Witness ==
  /\ ttt_ev.op = "click" /\ ttt_ev.winner = O
  /\ ttt_ev.row = 1 /\ ttt_ev.col = 1
  /\ CompleteLines(ttt_board) = { Len(Lines) }

\* One move has completed two lines at once.
C21_WitnessTwoLines ==
  /\ ttt_ev.op = "click" /\ ttt_ev.winner # None
  /\ Cardinality(CompleteLines(ttt_board)) = 2

\* ------------------------------------------------------------------------
\* C22: the calculator, texts that are no numbers
\* ------------------------------------------------------------------------
\* The step presses a button that converts the text of the display to a
\* number: an operator (line 89, and line 100 when an operation is pending
\* and an operand was entered), or '=' with an operation pending (line 100).
Converts ==
  \/ LastPressed' \in Operators
  \/ LastPressed' = "=" /\ operation # None

\* C22: no press raises an exception that is not handled, and whenever a
\* press converts the text of the display to a number the display holds a
\* numeric text, also after "Error" has been displayed.
C22_NoUnhandledFailure ==
  [][ /\ raised' = None
      /\ Converts => IsFloatText(current_input) ]_vars

=============================================================================
